---- MODULE Spec2Model ----
(***************************************************************************)
(* fix_index.py: a one-shot script that reads src/index.ts, splices three  *)
(* blocks of text into it (an import statement, nine entries of the tools  *)
(* array, seven entries of the writeOperations set), writes the file back  *)
(* and prints a summary.                                                   *)
(*                                                                         *)
(* Text is a sequence of tokens.  A token is a run of characters that the  *)
(* script never splits: a line without its terminator, the line terminator *)
(* "\n", or, inside a string literal of the script, one source character   *)
(* of an escape sequence.  Substring search and replacement work on token  *)
(* sequences exactly as Python's work on character sequences.              *)
(***************************************************************************)
EXTENDS Naturals, Sequences, FiniteSets

VARIABLES
    file,     \* stored content of src/index.ts
    content,  \* the script's variable `content`
    pc,       \* the statement the script is at
    stdout,   \* the lines printed so far
    hist,     \* the values `content` has taken in this run, oldest first
    orig,     \* stored content of src/index.ts when the run started
    first,    \* stored content of src/index.ts before the first run
    nReads,   \* open(..., 'r') calls of this run
    nWrites,  \* completed f.write() calls of this run
    run       \* number of the current invocation of the script

vars == <<file, content, pc, stdout, hist, orig, first, nReads, nWrites, run>>

\* Largest number of fragments an initial src/index.ts is made of.
MaxFrags == 4
\* Largest number of invocations of the script on the same file.
MaxRuns == 2

----------------------------------------------------------------------------
(* String literals of the script *)

NL == "\n"
BS == "\\"

\* chr(n) for the octal escape \n of a non-raw Python literal, n a digit.
OctalChar(d) ==
    CASE d = "0" -> "<U+0000>" [] d = "1" -> "<U+0001>" [] d = "2" -> "<U+0002>"
      [] d = "3" -> "<U+0003>" [] d = "4" -> "<U+0004>" [] d = "5" -> "<U+0005>"
      [] d = "6" -> "<U+0006>" [] d = "7" -> "<U+0007>"

OctalDigits == {"0", "1", "2", "3", "4", "5", "6", "7"}

\* The value of a non-raw Python string literal whose source text is src:
\* backslash-n is a line feed, backslash-octal-digit is the character with
\* that code; every other token stands for itself.
RECURSIVE PyStr(_)
PyStr(src) ==
    IF src = <<>> THEN <<>>
    ELSE IF Head(src) = BS /\ Len(src) >= 2 /\ src[2] = "n"
         THEN <<NL>> \o PyStr(Tail(Tail(src)))
    ELSE IF Head(src) = BS /\ Len(src) >= 2 /\ src[2] \in OctalDigits
         THEN <<OctalChar(src[2])>> \o PyStr(Tail(Tail(src)))
    ELSE <<Head(src)>> \o PyStr(Tail(src))

\* The value of a raw Python string literal r"...": its source text.
RawStr(src) == src

import_anchor == <<"} from './tools/performance.js';">>

import_statement ==
    << "import {", NL,
       "  addDatabaseFileTool,", NL,
       "  removeDatabaseFileTool,", NL,
       "  modifyDatabaseFileTool,", NL,
       "  shrinkDatabaseFileTool,", NL,
       "  createFilegroupTool,", NL,
       "  removeFilegroupTool,", NL,
       "  modifyFilegroupTool,", NL,
       "  listFilegroupsTool,", NL,
       "  listDatabaseFilesTool,", NL,
       "} from './tools/file-management.js';", NL >>

\* import_replacement without the line feed between the anchor and the
\* statement.
import_replacement_joined == import_anchor \o import_statement

\* The second argument of the first content.replace call.
import_replacement == import_anchor \o PyStr(<<BS, "n">>) \o import_statement

tools_addition ==
    << NL, "  // File and filegroup management tools",
       NL, "  addDatabaseFileTool,",
       NL, "  removeDatabaseFileTool,",
       NL, "  modifyDatabaseFileTool,",
       NL, "  shrinkDatabaseFileTool,",
       NL, "  createFilegroupTool,",
       NL, "  removeFilegroupTool,",
       NL, "  modifyFilegroupTool,",
       NL, "  listFilegroupsTool,",
       NL, "  listDatabaseFilesTool," >>

\* The pattern r"(  getWaitStatsTool,)\n(];)": group 1, a line feed, group 2.
\* group 0 marks text outside every group.
tools_pattern ==
    << [group |-> 1, text |-> <<"  getWaitStatsTool,">>],
       [group |-> 0, text |-> <<NL>>],
       [group |-> 2, text |-> <<"];">>] >>

\* The replacement template r"\1" + tools_addition + "\n\2": only the first
\* literal is raw, the last one goes through Python's escape processing.
tools_repl == RawStr(<<BS, "1">>) \o tools_addition \o PyStr(<<BS, "n", BS, "2">>)

write_ops ==
    << "  'sqlserver_add_database_file',", NL,
       "  'sqlserver_remove_database_file',", NL,
       "  'sqlserver_modify_database_file',", NL,
       "  'sqlserver_shrink_database_file',", NL,
       "  'sqlserver_create_filegroup',", NL,
       "  'sqlserver_remove_filegroup',", NL,
       "  'sqlserver_modify_filegroup',", NL >>

write_ops_anchor == <<"  'sqlserver_delete_job',">> \o PyStr(<<BS, "n">>) \o <<"]);">>

\* write_ops_replacement with the new entries in front of the anchor entry.
write_ops_replacement_before ==
    write_ops \o <<"  'sqlserver_delete_job',">> \o PyStr(<<BS, "n">>) \o <<"]);">>

write_ops_replacement ==
    <<"  'sqlserver_delete_job',">> \o PyStr(<<BS, "n">>) \o write_ops \o <<"]);">>

summary ==
    << "Successfully updated index.ts",
       "- Added file-management import",
       "- Added 9 new tools to tools array",
       "- Added 7 write operations to writeOperations set" >>

----------------------------------------------------------------------------
(* str.replace and re.sub *)

\* s has pat at position i.
StartsAt(s, i, pat) ==
    /\ i + Len(pat) - 1 <= Len(s)
    /\ SubSeq(s, i, i + Len(pat) - 1) = pat

\* The first position at or after i where s has pat, 0 when there is none.
FindFrom(s, i, pat) ==
    LET found == {j \in i..Len(s) : StartsAt(s, j, pat)}
    IN  IF found = {} THEN 0 ELSE CHOOSE j \in found : \A k \in found : j <= k

RECURSIVE ReplaceFrom(_, _, _, _)
\* The replacement loop both str.replace and re.sub run from position i:
\* find the next occurrence, copy what precedes it, emit new, go on behind
\* the occurrence; with no occurrence left, copy the rest.
ReplaceFrom(s, i, old, new) ==
    LET j == FindFrom(s, i, old)
    IN  IF j = 0 THEN SubSeq(s, i, Len(s))
        ELSE SubSeq(s, i, j - 1) \o new \o ReplaceFrom(s, j + Len(old), old, new)

\* s.replace(old, new, 1): only the first occurrence becomes new.
StrReplaceFirst(s, old, new) ==
    LET j == FindFrom(s, 1, old)
    IN  IF j = 0 THEN s
        ELSE SubSeq(s, 1, j - 1) \o new \o SubSeq(s, j + Len(old), Len(s))

\* s.replace(old, new) with no count, old not empty: every occurrence of
\* old, found left to right without overlap, becomes new.
StrReplace(s, old, new) == ReplaceFrom(s, 1, old, new)

RECURSIVE PatternText(_)
\* The text a pattern made of literals matches.
PatternText(p) ==
    IF p = <<>> THEN <<>> ELSE Head(p).text \o PatternText(Tail(p))

\* What group k of pattern p captured.
GroupText(p, k) ==
    LET with == {i \in 1..Len(p) : p[i].group = k}
    IN  p[CHOOSE i \in with : TRUE].text

GroupDigits == {"1", "2", "3", "4", "5", "6", "7", "8", "9"}

DigitValue(d) ==
    CASE d = "1" -> 1 [] d = "2" -> 2 [] d = "3" -> 3 [] d = "4" -> 4
      [] d = "5" -> 5 [] d = "6" -> 6 [] d = "7" -> 7 [] d = "8" -> 8
      [] d = "9" -> 9

RECURSIVE ExpandTemplate(_, _)
\* re's expansion of a replacement template for a match of pattern p:
\* backslash-digit is that group's text, backslash-n a line feed, any other
\* token is copied.
ExpandTemplate(repl, p) ==
    IF repl = <<>> THEN <<>>
    ELSE IF Head(repl) = BS /\ Len(repl) >= 2 /\ repl[2] \in GroupDigits
         THEN GroupText(p, DigitValue(repl[2])) \o ExpandTemplate(Tail(Tail(repl)), p)
    ELSE IF Head(repl) = BS /\ Len(repl) >= 2 /\ repl[2] = "n"
         THEN <<NL>> \o ExpandTemplate(Tail(Tail(repl)), p)
    ELSE <<Head(repl)>> \o ExpandTemplate(Tail(repl), p)

\* re.sub(p, repl, s) with no count: every match, found left to right
\* without overlap, becomes the expanded template.
ReSub(p, repl, s) == ReplaceFrom(s, 1, PatternText(p), ExpandTemplate(repl, p))

----------------------------------------------------------------------------
(* The three substitutions *)

AddImport(c) == StrReplace(c, import_anchor, import_replacement)

\* AddTools with a pattern that also takes the line feed behind `];`.
AddToolsGreedy(c) ==
    ReplaceFrom(c, 1, PatternText(tools_pattern) \o <<NL>>,
                ExpandTemplate(tools_repl, tools_pattern))

AddTools(c) == ReSub(tools_pattern, tools_repl, c)

\* AddWriteOps with the result of content.replace thrown away.
AddWriteOpsDiscarded(c) == c

AddWriteOps(c) == StrReplace(c, write_ops_anchor, write_ops_replacement)

----------------------------------------------------------------------------
(* Initial files *)

\* Pieces an index.ts that the script has not touched yet is made of: the
\* closing line of the performance import, the end of the tools array, the
\* end of the writeOperations set, and pieces that are almost one of these.
Fragments ==
    { import_anchor \o <<NL>>,
      <<"  getWaitStatsTool,", NL, "];", NL>>,
      <<"  'sqlserver_delete_job',", NL, "]);", NL>>,
      <<"  getWaitStatsTool,", NL>>,
      <<"];", NL>>,
      <<"  'sqlserver_delete_job',", NL>>,
      <<"  getQueryStatsTool,", NL>> }

RECURSIVE Flatten(_)
Flatten(fs) == IF fs = <<>> THEN <<>> ELSE Head(fs) \o Flatten(Tail(fs))

Inputs == {Flatten(fs) : fs \in UNION {[1..k -> Fragments] : k \in 0..MaxFrags}}

----------------------------------------------------------------------------
(* The script *)

Init ==
    /\ file \in Inputs
    /\ content = <<>>
    /\ pc = "read"
    /\ stdout = <<>>
    /\ hist = <<>>
    /\ orig = file
    /\ first = file
    /\ nReads = 0
    /\ nWrites = 0
    /\ run = 1

\* with open('src/index.ts', 'r') as f: content = f.read()
Read ==
    /\ pc = "read"
    /\ content' = file
    /\ hist' = <<file>>
    /\ nReads' = nReads + 1
    /\ pc' = "import"
    /\ UNCHANGED <<file, stdout, orig, first, nWrites, run>>

\* open(..., 'r') raises (no such file, permission denied): the script ends.
ReadFail ==
    /\ pc = "read"
    /\ nReads' = nReads + 1
    /\ pc' = "error"
    /\ UNCHANGED <<file, content, stdout, hist, orig, first, nWrites, run>>

\* ImportStep that raises when the anchor is not in the content.
ImportStepStrict ==
    /\ pc = "import"
    /\ IF FindFrom(content, 1, import_anchor) = 0
       THEN /\ pc' = "error"
            /\ UNCHANGED <<content, hist>>
       ELSE /\ content' = AddImport(content)
            /\ hist' = Append(hist, content')
            /\ pc' = "tools"
    /\ UNCHANGED <<file, stdout, orig, first, nReads, nWrites, run>>

ImportStep ==
    /\ pc = "import"
    /\ content' = AddImport(content)
    /\ hist' = Append(hist, content')
    /\ pc' = "tools"
    /\ UNCHANGED <<file, stdout, orig, first, nReads, nWrites, run>>

ToolsStep ==
    /\ pc = "tools"
    /\ content' = AddTools(content)
    /\ hist' = Append(hist, content')
    /\ pc' = "write_ops"
    /\ UNCHANGED <<file, stdout, orig, first, nReads, nWrites, run>>

WriteOpsStep ==
    /\ pc = "write_ops"
    /\ content' = AddWriteOps(content)
    /\ hist' = Append(hist, content')
    /\ pc' = "open_w"
    /\ UNCHANGED <<file, stdout, orig, first, nReads, nWrites, run>>

\* open('src/index.ts', 'w') succeeds: the file is truncated.
OpenWrite ==
    /\ pc = "open_w"
    /\ file' = <<>>
    /\ pc' = "write"
    /\ UNCHANGED <<content, stdout, hist, orig, first, nReads, nWrites, run>>

\* OpenWriteFail that has emptied the file before it raises.
OpenWriteFailTruncated ==
    /\ pc = "open_w"
    /\ file' = <<>>
    /\ pc' = "error"
    /\ UNCHANGED <<content, stdout, hist, orig, first, nReads, nWrites, run>>

\* open(..., 'w') raises (permission denied): the script ends.
OpenWriteFail ==
    /\ pc = "open_w"
    /\ pc' = "error"
    /\ UNCHANGED <<file, content, stdout, hist, orig, first, nReads, nWrites, run>>

\* f.write(content) and the close at the end of the with block.
Write ==
    /\ pc = "write"
    /\ file' = content
    /\ nWrites' = nWrites + 1
    /\ pc' = "print"
    /\ UNCHANGED <<content, stdout, hist, orig, first, nReads, run>>

\* The four print calls.
PrintSummary ==
    /\ pc = "print"
    /\ stdout' = stdout \o summary
    /\ pc' = "done"
    /\ UNCHANGED <<file, content, hist, orig, first, nReads, nWrites, run>>

\* The script is started again on the file it left behind.
Rerun ==
    /\ pc = "done"
    /\ run < MaxRuns
    /\ run' = run + 1
    /\ pc' = "read"
    /\ content' = <<>>
    /\ stdout' = <<>>
    /\ hist' = <<>>
    /\ orig' = file
    /\ nReads' = 0
    /\ nWrites' = 0
    /\ UNCHANGED <<file, first>>

Next ==
    \/ Read
    \/ ReadFail
    \/ ImportStep
    \/ ToolsStep
    \/ WriteOpsStep
    \/ OpenWrite
    \/ OpenWriteFail
    \/ Write
    \/ PrintSummary

\* One invocation of the script on an untouched index.ts.
Spec == Init /\ [][Next]_vars

NextRerun == Next \/ Rerun

\* The script invoked up to MaxRuns times in a row on the same file.
SpecRerun == Init /\ [][NextRerun]_vars

----------------------------------------------------------------------------
(* Vocabulary of the properties *)

\* Positions of s where pat occurs.
Occurrences(s, pat) == {i \in 1..Len(s) : StartsAt(s, i, pat)}

Count(s, pat) == Cardinality(Occurrences(s, pat))

Contains(s, pat) == Occurrences(s, pat) # {}

Regions == 1..3

\* The text whose occurrences region r looks for.
RegionAnchor(r) ==
    CASE r = 1 -> <<"} from './tools/performance.js';">>
      [] r = 2 -> <<"  getWaitStatsTool,", NL, "];">>
      [] r = 3 -> <<"  'sqlserver_delete_job',", NL, "]);">>

\* The InsertionBlock of region r.
RegionBlock(r) ==
    CASE r = 1 -> import_statement
      [] r = 2 -> tools_addition
      [] r = 3 -> write_ops

\* Region r's anchor entry with the InsertionBlock right behind it.
RegionSpliced(r) ==
    CASE r = 1 -> <<"} from './tools/performance.js';", NL>> \o import_statement
      [] r = 2 -> <<"  getWaitStatsTool,">> \o tools_addition
      [] r = 3 -> <<"  'sqlserver_delete_job',", NL>> \o write_ops

\* Region r has been applied in this run: hist[r] went in, hist[r + 1] came out.
Applied(r) == Len(hist) >= r + 1

Last(s, n) == SubSeq(s, Len(s) - n + 1, Len(s))

\* out is inp with the occurrence of anchor a at position i, and nothing
\* else, replaced by some text.
SplicedAt(inp, out, a, i) ==
    LET n == Len(inp) - (i + Len(a) - 1)
    IN  /\ Len(out) >= (i - 1) + n
        /\ SubSeq(out, 1, i - 1) = SubSeq(inp, 1, i - 1)
        /\ Last(out, n) = Last(inp, n)

\* Every token of inp outside the occurrences of a is in out, moved right by
\* d for each occurrence before it, and out has no other room.
PreservedOutside(inp, out, a, d) ==
    LET occ == Occurrences(inp, a)
        inSpan(j) == \E i \in occ : i <= j /\ j < i + Len(a)
        before(j) == Cardinality({i \in occ : i < j})
    IN  /\ Len(out) = Len(inp) + d * Cardinality(occ)
        /\ \A j \in 1..Len(inp) : ~inSpan(j) => out[j + d * before(j)] = inp[j]

RECURSIVE JoinLines(_)
\* The lines, each with its line terminator.
JoinLines(ls) == IF ls = <<>> THEN <<>> ELSE <<Head(ls), NL>> \o JoinLines(Tail(ls))

RECURSIVE IsSubsequence(_, _)
\* The tokens of a occur in b in the same order.
IsSubsequence(a, b) ==
    IF a = <<>> THEN TRUE
    ELSE IF b = <<>> THEN FALSE
    ELSE IF Head(a) = Head(b) THEN IsSubsequence(Tail(a), Tail(b))
    ELSE IsSubsequence(a, Tail(b))

Printed(line) == \E k \in 1..Len(stdout) : stdout[k] = line

----------------------------------------------------------------------------
(* Properties *)

\* C1: when the content holds `  getWaitStatsTool,` followed by a line feed
\* and `];`, the content after the tools substitution holds
\* `  getWaitStatsTool,`, the new entry lines, a line feed and the closing
\* `];` the pattern captured.
C1_ClosingDelimiterKept ==
    (Applied(2) /\ Contains(hist[2], RegionAnchor(2)))
        => Contains(hist[3], <<"  getWaitStatsTool,">> \o tools_addition \o <<NL, "];">>)

\* C2: for each region, if its anchor occurs exactly once in the file the
\* run started from, its InsertionBlock occurs exactly once in the file the
\* run has written.
C2_SingleInsertion ==
    pc = "done" =>
        \A r \in Regions :
            Count(orig, RegionAnchor(r)) = 1 => Count(file, RegionBlock(r)) = 1

\* A finished run on a file that holds each of the three anchors once.
C2_Witness ==
    /\ pc = "done"
    /\ \A r \in Regions : Count(orig, RegionAnchor(r)) = 1

\* C3 as stated: a region whose anchor is matched changes the content by one
\* contiguous replacement at one matched span, everything before and after
\* that span being kept.
C3_OneContiguousReplacement ==
    \A r \in Regions :
        (Applied(r) /\ Contains(hist[r], RegionAnchor(r)))
            => \E i \in Occurrences(hist[r], RegionAnchor(r)) :
                   SplicedAt(hist[r], hist[r + 1], RegionAnchor(r), i)

\* C3 amended: a region changes the content by one replacement at every
\* matched span of its anchor; every token outside the matched spans is
\* kept, in the same order.
C3_BytePreservation ==
    \A r \in Regions :
        Applied(r) =>
            \E d \in 0..Len(hist[r + 1]) :
                PreservedOutside(hist[r], hist[r + 1], RegionAnchor(r), d)

\* The tools substitution has replaced two occurrences of its anchor, with
\* text before, between and behind them, and has changed the content.
C3_Witness ==
    /\ Applied(2)
    /\ Count(hist[2], RegionAnchor(2)) = 2
    /\ ~StartsAt(hist[2], 1, RegionAnchor(2))
    /\ Len(hist[2]) > 2 * Len(RegionAnchor(2)) + 3
    /\ hist[3] # hist[2]

\* C4: a run on a file without the import anchor but with the other two
\* anchors ends without an error, and the file it writes holds the tools
\* insertion and the writeOperations insertion and not the import
\* insertion.  A region whose anchor is missing leaves the content as it is,
\* only file access ends a run in an error, and a finished run has applied
\* the three regions and written the result.
C4_RegionIndependence ==
    /\ (/\ pc \in {"done", "error"}
        /\ nReads = 1 /\ hist # <<>>
        /\ ~Contains(orig, RegionAnchor(1))
        /\ Contains(orig, RegionAnchor(2))
        /\ Contains(orig, RegionAnchor(3)))
           => /\ Len(hist) = 4
              /\ Contains(hist[4], RegionSpliced(2))
              /\ Contains(hist[4], RegionSpliced(3))
              /\ ~Contains(hist[4], RegionBlock(1))
              /\ pc = "done" => file = hist[4]
    /\ \A r \in Regions :
           (Applied(r) /\ ~Contains(hist[r], RegionAnchor(r))) => hist[r + 1] = hist[r]
    /\ pc = "error" => (hist = <<>> \/ Len(hist) = 4)
    /\ pc = "done" => (Len(hist) = 4 /\ file = hist[4])

\* A finished run on a file that lacks only the import anchor.
C4_Witness ==
    /\ pc = "done"
    /\ ~Contains(orig, RegionAnchor(1))
    /\ Contains(orig, RegionAnchor(2))
    /\ Contains(orig, RegionAnchor(3))

\* The line of the summary that reports region r.
SummaryLine(r) ==
    CASE r = 1 -> "- Added file-management import"
      [] r = 2 -> "- Added 9 new tools to tools array"
      [] r = 3 -> "- Added 7 write operations to writeOperations set"

\* C5: the summary of a finished run names only the regions that were
\* modified: a region whose anchor was missing, and which was left
\* unchanged, is not reported as added.
C5_SummaryReportsSkip ==
    pc = "done" =>
        \A r \in Regions :
            ~Contains(hist[r], RegionAnchor(r)) => ~Printed(SummaryLine(r))

\* The closing delimiter of region r's list.
RegionCloser(r) == CASE r = 2 -> <<"];">> [] r = 3 -> <<"]);">>

\* C6: in the tools array and in the writeOperations set the entries that
\* were there stay in their order, and the new entries come right after the
\* anchor entry and before the closing delimiter, which stays.
C6_OrderStability ==
    \A r \in {2, 3} :
        (Applied(r) /\ Contains(hist[r], RegionAnchor(r)))
            => /\ IsSubsequence(hist[r], hist[r + 1])
               /\ \E i \in Occurrences(hist[r + 1], RegionSpliced(r)) :
                      LET e == i + Len(RegionSpliced(r))
                      IN  \/ StartsAt(hist[r + 1], e, RegionCloser(r))
                          \/ StartsAt(hist[r + 1], e, <<NL>> \o RegionCloser(r))

ImportLines ==
    << "import {",
       "  addDatabaseFileTool,",
       "  removeDatabaseFileTool,",
       "  modifyDatabaseFileTool,",
       "  shrinkDatabaseFileTool,",
       "  createFilegroupTool,",
       "  removeFilegroupTool,",
       "  modifyFilegroupTool,",
       "  listFilegroupsTool,",
       "  listDatabaseFilesTool,",
       "} from './tools/file-management.js';" >>

Min(S) == CHOOSE i \in S : \A j \in S : i <= j

\* C9 as stated: when a region's anchor occurs more than once, the
\* InsertionBlock is spliced in at the first occurrence only and everything
\* behind it is left as it was.
C9_FirstMatchOnly ==
    \A r \in Regions :
        (Applied(r) /\ Count(hist[r], RegionAnchor(r)) >= 2)
            => /\ SplicedAt(hist[r], hist[r + 1], RegionAnchor(r),
                            Min(Occurrences(hist[r], RegionAnchor(r))))
               /\ Count(hist[r + 1], RegionBlock(r)) = Count(hist[r], RegionBlock(r)) + 1

\* C9 amended: every occurrence of a region's anchor is used: the content
\* a region produces holds the anchor entry with the InsertionBlock behind
\* it as many times as the content it was given holds the anchor, and no
\* InsertionBlock anywhere else.
C9_EveryMatch ==
    \A r \in Regions :
        Applied(r) =>
            /\ Count(hist[r + 1], RegionSpliced(r)) = Count(hist[r], RegionAnchor(r))
            /\ Count(hist[r + 1], RegionBlock(r))
                   = Count(hist[r], RegionBlock(r)) + Count(hist[r], RegionAnchor(r))

\* A finished run in which a literal anchor and the pattern anchor each
\* occurred twice.
C9_Witness ==
    /\ pc = "done"
    /\ Count(hist[2], RegionAnchor(2)) = 2
    /\ \E r \in {1, 3} : Count(hist[r], RegionAnchor(r)) = 2

\* C10 as stated: after the second of two runs on a file that held each
\* anchor once, each of the three InsertionBlocks occurs twice.
C10_RerunDuplicatesAll ==
    (pc = "done" /\ run = 2 /\ \A r \in Regions : Count(first, RegionAnchor(r)) = 1)
        => \A r \in Regions : Count(file, RegionBlock(r)) = 2

\* C10 amended: after the n-th run in a row on a file that held each anchor
\* once, the import InsertionBlock occurs n times and the tools and
\* writeOperations InsertionBlocks occur once: the first run's insertion
\* parts the anchor entry from the closing delimiter, so the second and third
\* anchors match no more.
C10_RerunDuplicatesImport ==
    (pc = "done" /\ \A r \in Regions : Count(first, RegionAnchor(r)) = 1)
        => /\ Count(file, RegionBlock(1)) = run
           /\ Count(file, RegionBlock(2)) = 1
           /\ Count(file, RegionBlock(3)) = 1

\* The second run has finished on a file that held each anchor once.
C10_Witness ==
    /\ pc = "done"
    /\ run = 2
    /\ \A r \in Regions : Count(first, RegionAnchor(r)) = 1

====
